---- MODULE Spec2Model ----
(***************************************************************************)
(* ScholarSynth-AI: the literature-review orchestrator (agent_be.py), its  *)
(* deterministic formatter and the Groq chat adapter (groq_client.py).     *)
(*                                                                         *)
(* A Python str is a sequence of tokens.  A token is a one-character       *)
(* string for text the code measures, cuts or searches (summaries, model   *)
(* replies, API keys), and an atomic string for text it only copies        *)
(* (template literals, author names, dates, urls, topics).  A document is  *)
(* a sequence of lines, each line a str.                                   *)
(***************************************************************************)
EXTENDS Integers, Sequences, FiniteSets, TLC

(* ----------------------------- bounds ---------------------------------- *)
\* most papers one arXiv search returns in the model (the code asks for 5)
MaxPapers == 2
\* most authors on a paper
MaxAuthors == 4
\* how far around a length threshold the sampled text lengths spread
MaxDelta == 1

(* ------------------------ program constants ---------------------------- *)
FetchSummaryLimit == 400
SummaryLimit == 300
AuthorLimit == 3
MinReviewLen == 100

(* --------------------------- str helpers ------------------------------- *)
Whitespace == {" ", "\n", "\t"}

\* c repeated n times
Rep(c, n) == [i \in 1..n |-> c]

\* str.strip(): drop leading and trailing whitespace
Strip(s) ==
    IF \A i \in 1..Len(s) : s[i] \in Whitespace THEN << >>
    ELSE LET first == CHOOSE i \in 1..Len(s) :
                          s[i] \notin Whitespace /\ \A j \in 1..(i - 1) : s[j] \in Whitespace
             last  == CHOOSE i \in 1..Len(s) :
                          s[i] \notin Whitespace /\ \A j \in (i + 1)..Len(s) : s[j] \in Whitespace
         IN  SubSeq(s, first, last)

\* s[:n]
Slice(s, n) == SubSeq(s, 1, IF Len(s) < n THEN Len(s) ELSE n)

\* One left-to-right pass of str.replace('...', '') over s[lo..hi].  dots is
\* the number of dots read and not yet written (0..2): a third dot completes a
\* match, which is dropped; any other character first writes the dots held.
\* The range is halved to keep the nesting shallow; the order stays left to right.
RECURSIVE EllipsisScan(_, _, _, _)
EllipsisScan(s, lo, hi, dots) ==
    IF lo > hi THEN [out |-> << >>, dots |-> dots]
    ELSE IF lo = hi
    THEN IF s[lo] = "."
         THEN [out |-> << >>, dots |-> IF dots = 2 THEN 0 ELSE dots + 1]
         ELSE [out |-> Rep(".", dots) \o <<s[lo]>>, dots |-> 0]
    ELSE LET mid   == (lo + hi) \div 2
             left  == EllipsisScan(s, lo, mid, dots)
             right == EllipsisScan(s, mid + 1, hi, left.dots)
         IN  [out |-> left.out \o right.out, dots |-> right.dots]

\* str.replace('...', '')
RemoveEllipsis(s) ==
    LET scan == EllipsisScan(s, 1, Len(s), 0)
    IN  scan.out \o Rep(".", scan.dots)

\* str.replace('\n', ' ')
NewlinesToSpaces(s) == [i \in 1..Len(s) |-> IF s[i] = "\n" THEN " " ELSE s[i]]

\* sep.join(items) for atomic items
RECURSIVE Join(_, _)
Join(sep, items) ==
    IF Len(items) = 0 THEN << >>
    ELSE IF Len(items) = 1 THEN <<items[1]>>
    ELSE <<items[1], sep>> \o Join(sep, Tail(items))

(* ------------------------------ JSON ----------------------------------- *)
\* json.dumps(v, indent=2): the text of an empty list is "[]"; json.loads gives
\* the value back.  A text that is no JSON has valid = FALSE and no value.
JsonDumps(v) == [text |-> IF v = << >> THEN "[]" ELSE "[...]", valid |-> TRUE, value |-> v]
NotJson == [text |-> "garbage", valid |-> FALSE, value |-> << >>]

(* -------------------------- Paper Fetcher ------------------------------ *)
\* one dict appended per arXiv result
PaperRecord(result) ==
    [title     |-> Strip(result.title),
     authors   |-> result.authors,
     published |-> result.published,
     summary   |-> Slice(NewlinesToSpaces(Strip(result.summary)), FetchSummaryLimit)
                       \o <<".", ".", ".">>,
     pdf_url   |-> result.pdf_url]

\* get_papers_sync: search = [results, error]; an exception raised while the
\* results are iterated discards what was collected and returns "[]"
get_papers_sync(search) ==
    IF search.error THEN JsonDumps(<< >>)
    ELSE JsonDumps([i \in 1..Len(search.results) |-> PaperRecord(search.results[i])])

(* --------------------- Deterministic Review Formatter ------------------ *)
\* AuthorStr with the cut one author early (>= for >)
AuthorStrOffByOne(authors) ==
    IF Len(authors) >= AuthorLimit
    THEN Join(", ", Slice(authors, AuthorLimit)) \o <<" et al.">>
    ELSE Join(", ", authors)

\* authors[:3] joined, plus " et al." when there are more than 3
AuthorStr(authors) ==
    IF Len(authors) > AuthorLimit
    THEN Join(", ", Slice(authors, AuthorLimit)) \o <<" et al.">>
    ELSE Join(", ", authors)

\* CleanSummary with the cut one character early (>= for >)
CleanSummaryOffByOne(summary) ==
    LET clean_summary == Strip(RemoveEllipsis(summary))
    IN  IF Len(clean_summary) >= SummaryLimit
        THEN Slice(clean_summary, SummaryLimit) \o <<".", ".", ".">>
        ELSE clean_summary

\* summary.replace('...', '').strip(), cut to 300 characters plus "..."
CleanSummary(summary) ==
    LET clean_summary == Strip(RemoveEllipsis(summary))
    IN  IF Len(clean_summary) > SummaryLimit
        THEN Slice(clean_summary, SummaryLimit) \o <<".", ".", ".">>
        ELSE clean_summary

TitleLine(topic) == <<"# Literature Review: ", topic>>

\* the "### i. [title](pdf_url)" block of paper i
PaperSection(i, paper, topic) ==
    << <<"### ", ToString(i), ". [">> \o paper.title \o <<"](", paper.pdf_url, ")">>,
       << >>,
       <<"**Authors:** ">> \o AuthorStr(paper.authors) \o <<"  ">>,
       <<"**Published:** ", paper.published>>,
       << >>,
       <<"**Summary:** ">> \o CleanSummary(paper.summary),
       << >>,
       <<"**Key Contributions:** This work contributes to the ", topic,
         " field by addressing important research questions and presenting novel approaches to existing challenges.">>,
       << >>,
       <<"---">>,
       << >> >>

RECURSIVE PaperSections(_, _, _)
PaperSections(i, papers, topic) ==
    IF i > Len(papers) THEN << >>
    ELSE PaperSection(i, papers[i], topic) \o PaperSections(i + 1, papers, topic)

ReviewIntro(topic, n) ==
    << TitleLine(topic),
       << >>,
       <<"## Introduction">>,
       << >>,
       <<"This literature review examines recent research developments in the field of ", topic,
         ". The following analysis is based on ", ToString(n),
         " relevant papers retrieved from arXiv, providing insights into current methodologies, key contributions, and emerging trends in this domain.">>,
       << >>,
       <<"## Paper Analysis">>,
       << >> >>

ReviewConclusion(topic) ==
    << <<"## Conclusion">>,
       << >>,
       <<"The reviewed papers demonstrate significant progress in ", topic,
         " research. Key themes across the literature include methodological innovations, practical applications, and theoretical advancements. Future research directions may focus on addressing current limitations and exploring new applications of these techniques.">>,
       << >>,
       <<"## References">>,
       << >>,
       <<"All papers are available through arXiv and can be accessed via the provided links above.">>,
       << >>,
       <<"---">>,
       <<"*Literature review generated using AutoGen multi-agent system*">> >>

NoPapersDoc(topic) ==
    << TitleLine(topic), << >>, <<"(x) No papers found for this topic.">> >>

ErrorDoc(topic, papers_json) ==
    << TitleLine(topic), << >>, <<"## Error">>, << >>,
       <<"(x) Error processing papers: ", "json error">>, << >>,
       <<"## Raw Data">>, <<papers_json.text>>, << >> >>

\* create_formatted_review without its "if not papers" return
create_formatted_review_NoEmptyCheck(topic, papers_json) ==
    IF ~papers_json.valid THEN ErrorDoc(topic, papers_json)
    ELSE LET papers == papers_json.value
         IN  ReviewIntro(topic, Len(papers))
                 \o PaperSections(1, papers, topic)
                 \o ReviewConclusion(topic)

\* create_formatted_review(topic, papers_json)
create_formatted_review(topic, papers_json) ==
    IF ~papers_json.valid THEN ErrorDoc(topic, papers_json)
    ELSE LET papers == papers_json.value
         IN  IF papers = << >> THEN NoPapersDoc(topic)
             ELSE ReviewIntro(topic, Len(papers))
                      \o PaperSections(1, papers, topic)
                      \o ReviewConclusion(topic)

(* ------------------ Chat Adapter: message normalisation ---------------- *)
(* A Python value is [t, repr, json, serializable]: its type, str(value),  *)
(* json.dumps(value) and whether json.dumps accepts it.  A message is      *)
(* [kind, has, source, role, content, repr]: a dict ("dict"), an object    *)
(* with attributes ("obj") or a plain str ("str"); has names the keys or   *)
(* attributes it carries among source, role and content; repr is str(m).   *)
(***************************************************************************)
PyStrVal(text) ==
    [t |-> "str", repr |-> text, json |-> <<"\"">> \o text \o <<"\"">>, serializable |-> TRUE]

\* what iterating messages yields: the items of a list, the characters of a str
CharItem(c) ==
    [kind |-> "str", has |-> {}, source |-> "", role |-> "", content |-> PyStrVal(<<c>>),
     repr |-> <<c>>]

Raised == [ok |-> FALSE, out |-> << >>]

\* the body of the for loop of _format_messages for one message m
FormatOne(m) ==
    LET from_source == m.kind = "obj" /\ "source" \in m.has
        role == IF from_source THEN (IF m.source # "user" THEN "assistant" ELSE "user")
                ELSE IF m.kind = "dict"
                THEN (IF "role" \in m.has THEN m.role ELSE "user")
                ELSE "user"
        content == IF from_source
                   THEN (IF "content" \in m.has THEN PyStrVal(m.content.repr)
                         ELSE PyStrVal(m.repr))
                   ELSE IF m.kind = "dict"
                   THEN (IF "content" \in m.has THEN m.content ELSE PyStrVal(m.repr))
                   ELSE PyStrVal(m.repr)
    IN  IF content.t \in {"list", "dict"}
        THEN IF content.serializable
             THEN [ok |-> TRUE, out |-> <<[role |-> role, content |-> content.json, ctype |-> "str"]>>]
             ELSE Raised
        ELSE [ok |-> TRUE, out |-> <<[role |-> role, content |-> content.repr, ctype |-> "str"]>>]

\* _format_messages(messages): messages = [t, items, repr]; iterating anything
\* but a list or a str raises, and so does json.dumps of what it cannot serialize
format_messages(messages) ==
    IF messages.t \notin {"list", "str"} THEN Raised
    ELSE LET each == [i \in 1..Len(messages.items) |-> FormatOne(messages.items[i])]
         IN  IF \E i \in 1..Len(each) : ~each[i].ok THEN Raised
             ELSE [ok |-> TRUE, out |-> [i \in 1..Len(each) |-> each[i].out[1]]]

\* a message handed on as it came (the fallback's "formatted_messages = messages")
AsGiven(m) ==
    [role    |-> IF "role" \in m.has THEN m.role ELSE "<absent>",
     content |-> IF "content" \in m.has THEN m.content.repr ELSE << >>,
     ctype   |-> IF "content" \in m.has THEN m.content.t ELSE "<absent>"]

\* the except branch of create: the fallback formatting
FallbackFormat(messages) ==
    LET whole == <<[role |-> "user", content |-> messages.repr, ctype |-> "str"]>>
    IN  IF messages.t = "str" THEN whole
        ELSE IF messages.t = "list" /\ Len(messages.items) > 0
        THEN IF messages.items[1].kind = "dict"
             THEN [i \in 1..Len(messages.items) |-> AsGiven(messages.items[i])]
             ELSE whole
        ELSE whole

\* normalize: the try/except around _format_messages in create
normalize(messages) ==
    LET formatted == format_messages(messages)
    IN  IF formatted.ok THEN [raised |-> FALSE, messages |-> formatted.out]
        ELSE [raised |-> FALSE, messages |-> FallbackFormat(messages)]


(* ------------------------ credential resolution ------------------------ *)
(* os.environ's GROQ_API_KEY is [set, val]; st.session_state's groq_api_key*)
(* is [avail, val], avail = FALSE when streamlit cannot be imported or the *)
(* key is absent.  An optional str is [some, val].                         *)
(***************************************************************************)
NoStr == [some |-> FALSE, val |-> << >>]
SomeStr(text) == [some |-> TRUE, val |-> text]
\* Python truth of "key and key.strip()"
NonBlank(key) == key.some /\ key.val # << >> /\ Strip(key.val) # << >>
Getenv(env) == IF env.set THEN SomeStr(env.val) ELSE NoStr

\* LitReviewSystem._get_api_key: env first, then the session store, whose key
\* it also writes to the environment
get_api_key(env, session) ==
    IF NonBlank(Getenv(env))
    THEN [key |-> SomeStr(Strip(env.val)), env |-> env]
    ELSE IF session.avail /\ NonBlank(SomeStr(session.val))
    THEN [key |-> SomeStr(Strip(session.val)),
          env |-> [set |-> TRUE, val |-> Strip(session.val)]]
    ELSE [key |-> NoStr, env |-> env]

\* __init__ reading the environment ahead of its argument
GroqClientInitEnvFirst(api_key, env, session) ==
    IF NonBlank(Getenv(env))
    THEN [ok |-> TRUE, api_key |-> Strip(env.val), env |-> env]
    ELSE IF NonBlank(api_key)
    THEN [ok |-> TRUE, api_key |-> Strip(api_key.val), env |-> env]
    ELSE IF session.avail /\ NonBlank(SomeStr(session.val))
    THEN [ok |-> TRUE, api_key |-> Strip(session.val),
          env |-> [set |-> TRUE, val |-> Strip(session.val)]]
    ELSE [ok |-> FALSE, api_key |-> << >>, env |-> env]

\* GroqChatCompletionClient.__init__(api_key=...): argument, then env, then the
\* session store; ValueError (ok = FALSE) when none holds a key
GroqClientInit(api_key, env, session) ==
    IF NonBlank(api_key)
    THEN [ok |-> TRUE, api_key |-> Strip(api_key.val), env |-> env]
    ELSE IF NonBlank(Getenv(env))
    THEN [ok |-> TRUE, api_key |-> Strip(env.val), env |-> env]
    ELSE IF session.avail /\ NonBlank(SomeStr(session.val))
    THEN [ok |-> TRUE, api_key |-> Strip(session.val),
          env |-> [set |-> TRUE, val |-> Strip(session.val)]]
    ELSE [ok |-> FALSE, api_key |-> << >>, env |-> env]

(* --------------------- Chat Adapter: create ---------------------------- *)
(* An HTTP exchange ends as [kind, status, body, json_ok, content]: kind   *)
(* "network_error" (no response: timeout, connection) or "http"; body is   *)
(* the response text as a sequence of phrases; json_ok says the body of a  *)
(* 2xx parses and holds choices[0].message.content; content is that value, *)
(* an optional str (JSON null is NoStr).                                   *)
(***************************************************************************)
\* str.lower() on the phrases the samples use
Lower(phrase) ==
    CASE phrase = "Model" -> "model"
      [] phrase = "MODEL" -> "model"
      [] phrase = "Decommissioned" -> "decommissioned"
      [] phrase = "DECOMMISSIONED" -> "decommissioned"
      [] phrase = "Rate limit" -> "rate limit"
      [] phrase = "Rate Limit" -> "rate limit"
      [] OTHER -> phrase

\* needle in text.lower()
ContainsLower(text, needle) == \E i \in 1..Len(text) : Lower(text[i]) = needle

CreateOk(content) == [ok |-> TRUE, failure |-> "none", exc |-> "none", content |-> content]
CreateFails(failure, exc) == [ok |-> FALSE, failure |-> failure, exc |-> exc, content |-> NoStr]

\* the branch with the rate-limit test of a 400 body ahead of the model test
MapHttpErrorRateFirst(status, body) ==
    IF status = 400
    THEN IF ContainsLower(body, "rate limit")
         THEN CreateFails("RateLimited", "ValueError")
         ELSE IF ContainsLower(body, "model") /\ ContainsLower(body, "decommissioned")
         THEN CreateFails("ModelUnavailable", "ValueError")
         ELSE CreateFails("TransportError", "HTTPStatusError")
    ELSE IF status = 401 THEN CreateFails("AuthError", "ValueError")
    ELSE IF status = 429 THEN CreateFails("RateLimited", "ValueError")
    ELSE CreateFails("TransportError", "HTTPStatusError")

\* the except httpx.HTTPStatusError branch of create
MapHttpError(status, body) ==
    IF status = 400
    THEN IF ContainsLower(body, "model") /\ ContainsLower(body, "decommissioned")
         THEN CreateFails("ModelUnavailable", "ValueError")
         ELSE IF ContainsLower(body, "rate limit")
         THEN CreateFails("RateLimited", "ValueError")
         ELSE CreateFails("TransportError", "HTTPStatusError")
    ELSE IF status = 401 THEN CreateFails("AuthError", "ValueError")
    ELSE IF status = 429 THEN CreateFails("RateLimited", "ValueError")
    ELSE CreateFails("TransportError", "HTTPStatusError")

\* create posting once more after a 429
RetriesOnRateLimit(response) ==
    IF response.kind = "http" /\ response.status = 429 THEN 1 ELSE 0

\* the requests create issues after its POST has ended as response: none, it
\* returns the reply or raises
Retries(response) == 0

\* what create returns or raises once the POST has ended as response
CreateResult(response) ==
    IF response.kind = "network_error" THEN CreateFails("TransportError", "RequestError")
    ELSE IF response.status < 200 \/ response.status > 299
    THEN MapHttpError(response.status, response.body)
    ELSE IF ~response.json_ok THEN CreateFails("TransportError", "KeyError")
    ELSE CreateOk(response.content)


(* ------------------- sampled inputs of the formatter ------------------- *)
Topics == {"quantum computing", "graph neural networks"}
AuthorNames == <<"A", "B", "C", "D", "E", "F", "G">>

\* body lengths around the two cuts (400 in the fetcher, 300 in the formatter)
SummaryLens ==
    {0, 1} \cup (SummaryLimit - MaxDelta .. SummaryLimit + MaxDelta)
           \cup (FetchSummaryLimit - MaxDelta .. FetchSummaryLimit + MaxDelta)

\* an abstract as arXiv returns it: n letters, optionally padded with
\* whitespace, holding a newline or holding an ellipsis of its own
SummaryShapes ==
    [lead : 0..1, n : SummaryLens, ell : {"none", "mid", "end", "newline"}, trail : 0..1]

SummaryOf(shape) ==
    Rep(" ", shape.lead)
      \o (CASE shape.ell = "none" -> Rep("x", shape.n)
            [] shape.ell = "mid"  -> IF shape.n = 0 THEN << >>
                                     ELSE <<"x", ".", ".", ".">> \o Rep("x", shape.n - 1)
            [] shape.ell = "end"  -> Rep("x", shape.n) \o <<".", ".", ".">>
            [] shape.ell = "newline" -> IF shape.n < 2 THEN Rep("x", shape.n)
                                        ELSE <<"x", "\n">> \o Rep("x", shape.n - 2))
      \o Rep("\n", shape.trail)

\* the j-th result of a search: plain, short summary, j authors at most
PlainResult(j) ==
    [title     |-> <<"T", ToString(j)>>,
     authors   |-> SubSeq(AuthorNames, 1, j),
     published |-> "2024-01-0" \o ToString(j),
     summary   |-> <<"s", " ", "s">>,
     pdf_url   |-> "http://arxiv.org/pdf/" \o ToString(j)]

\* a result with k authors and a summary of the given shape
ShapedResult(j, k, shape) ==
    [PlainResult(j) EXCEPT !.title = <<" ">> \o @,
                           !.authors = SubSeq(AuthorNames, 1, k),
                           !.summary = SummaryOf(shape)]

\* n results, the one at position at shaped, the others plain
SearchOf(n, at, k, shape, error) ==
    [results |-> [j \in 1..n |-> IF j = at THEN ShapedResult(j, k, shape) ELSE PlainResult(j)],
     error   |-> error]

(* ------------- sampled inputs of the message normalisation ------------ *)
\* most messages in a list handed to normalize
MaxMessages == 2

ListVal == [t |-> "list", repr |-> <<"[", "'", "a", "'", "]">>,
            json |-> <<"[", "\"", "a", "\"", "]">>, serializable |-> TRUE]
SetInListVal == [t |-> "list", repr |-> <<"[", "{", "1", "}", "]">>,
                 json |-> << >>, serializable |-> FALSE]
NoneVal == [t |-> "NoneType", repr |-> <<"N", "o", "n", "e">>,
            json |-> <<"n", "u", "l", "l">>, serializable |-> TRUE]
Hi == <<"h", "i">>

Message(kind, has, source, role, content, repr) ==
    [kind |-> kind, has |-> has, source |-> source, role |-> role, content |-> content,
     repr |-> repr]

MessageSamples ==
    { Message("dict", {"role", "content"}, "", "system", PyStrVal(Hi), <<"{system: hi}">>),
      Message("dict", {"role", "content"}, "", "assistant", ListVal, <<"{assistant: ['a']}">>),
      Message("dict", {"content"}, "", "", PyStrVal(Hi), <<"{content: hi}">>),
      Message("dict", {"role"}, "", "user", PyStrVal(<< >>), <<"{role: user}">>),
      Message("dict", {"role", "content"}, "", "user", SetInListVal, <<"{user: [{1}]}">>),
      Message("dict", {"role", "content"}, "", "user", NoneVal, <<"{user: None}">>),
      Message("obj", {"source", "content"}, "user", "", PyStrVal(Hi), <<"<TextMessage>">>),
      Message("obj", {"source", "content"}, "researcher", "", ListVal, <<"<TextMessage>">>),
      Message("obj", {"source"}, "summarizer", "", PyStrVal(<< >>), <<"<Event>">>),
      Message("obj", {"role", "content"}, "", "system", PyStrVal(Hi), <<"<SystemMessage>">>),
      Message("obj", {"role", "content"}, "", "assistant", PyStrVal(Hi), <<"<Msg>">>),
      Message("str", {}, "", "", PyStrVal(Hi), Hi) }

\* the lists of at most MaxMessages sampled messages
MessageLists == UNION {[1..n -> MessageSamples] : n \in 0..MaxMessages}

ListInput(items) == [t |-> "list", items |-> items, repr |-> <<"[", ToString(Len(items)), " messages]">>]
StrInput(text) == [t |-> "str", items |-> [i \in 1..Len(text) |-> CharItem(text[i])], repr |-> text]
NoneInput == [t |-> "NoneType", items |-> << >>, repr |-> <<"N", "o", "n", "e">>]

NormalizeInputs ==
    {ListInput(items) : items \in MessageLists}
        \cup {StrInput(<< >>), StrInput(Hi), NoneInput}

(* ------------- sampled inputs of the adapter's construction ------------ *)
\* the api_key argument: None, empty, blank, a key, a padded key
ArgSamples ==
    {NoStr, SomeStr(<< >>), SomeStr(<<" ">>), SomeStr(<<"k", "0">>),
     SomeStr(<<" ", "k", "0", "\n">>)}

\* GROQ_API_KEY in os.environ: unset, empty, blank, a key, a padded key
EnvSamples ==
    {[set |-> FALSE, val |-> << >>], [set |-> TRUE, val |-> << >>],
     [set |-> TRUE, val |-> <<"\t">>], [set |-> TRUE, val |-> <<"k", "1">>],
     [set |-> TRUE, val |-> <<" ", "k", "1">>]}

\* groq_api_key in st.session_state: no streamlit or no such key, empty (or
\* None), blank, a key, a padded key
SessionSamples ==
    {[avail |-> FALSE, val |-> << >>], [avail |-> TRUE, val |-> << >>],
     [avail |-> TRUE, val |-> <<" ", " ">>], [avail |-> TRUE, val |-> <<"k", "2">>],
     [avail |-> TRUE, val |-> <<"k", "2", " ">>]}

(* ---------------- sampled inputs of the orchestrator ------------------- *)
Sessions == {"s1", "s2"}

\* the topic each session asks for
TopicOf(i) == IF i = "s1" THEN "quantum computing" ELSE "graph neural networks"

\* (environment, session store of s1, session store of s2): no key anywhere
\* (blank or absent values only), a padded key in the environment and a key
\* of its own in the store of each session, a key in the store of one
\* session only
CredentialSamples ==
    { <<[set |-> TRUE, val |-> <<" ">>], [avail |-> FALSE, val |-> << >>],
        [avail |-> TRUE, val |-> <<"\t">>]>>,
      <<[set |-> TRUE, val |-> <<" ", "k", "1">>], [avail |-> TRUE, val |-> <<"k", "2">>],
        [avail |-> TRUE, val |-> <<"k", "3">>]>>,
      <<[set |-> FALSE, val |-> << >>], [avail |-> TRUE, val |-> <<"k", "2", " ">>],
        [avail |-> TRUE, val |-> << >>]>> }

\* what FunctionTool(...) and AssistantAgent(...) do in _initialize_clients
SetupOutcomes == {"ok", "ValueError", "Exception"}

\* searches of 0..MaxPapers plain results, and one that fails midway
Searches ==
    {SearchOf(n, 0, 0, [lead |-> 0, n |-> 0, ell |-> "none", trail |-> 0], FALSE) : n \in 0..MaxPapers}
        \cup {SearchOf(MaxPapers, 0, 0, [lead |-> 0, n |-> 0, ell |-> "none", trail |-> 0], TRUE)}

ErrorBodies ==
    { <<"The ", "model", " llama3 has been ", "decommissioned">>,
      <<"MODEL", " ", "DECOMMISSIONED">>,
      <<"This endpoint is ", "decommissioned">>,
      <<"Rate limit", " reached">>,
      <<"rate limit", " for ", "Model", ": ", "decommissioned">>,
      <<"invalid ", "model">>,
      <<"bad request">> }

ReplyLens == {0, 50} \cup (MinReviewLen - MaxDelta .. MinReviewLen + MaxDelta)

\* the model's reply: n letters after lead blanks
ReplyOf(lead, n) == SomeStr(Rep(" ", lead) \o Rep("r", n))

\* replies of every sampled length, and padded ones just above the threshold
Replies ==
    {ReplyOf(0, n) : n \in ReplyLens}
        \cup {ReplyOf(1, n) : n \in MinReviewLen .. MinReviewLen + MaxDelta}

HttpResponse(status, body, json_ok, content) ==
    [kind |-> "http", status |-> status, body |-> body, json_ok |-> json_ok, content |-> content]

NetworkError ==
    [kind |-> "network_error", status |-> 0, body |-> << >>, json_ok |-> FALSE, content |-> NoStr]

\* how the POST of an orchestrator run can end
Responses ==
    {NetworkError}
        \cup {HttpResponse(200, << >>, TRUE, content) : content \in Replies \cup {NoStr}}
        \cup {HttpResponse(200, << >>, FALSE, NoStr)}
        \cup {HttpResponse(400, body, FALSE, NoStr) :
                 body \in { <<"The ", "model", " llama3 has been ", "decommissioned">>,
                            <<"Rate limit", " reached">>,
                            <<"bad request">> }}
        \cup {HttpResponse(status, <<"bad request">>, FALSE, NoStr) : status \in {401, 429, 500}}

\* how a POST can end, for create on its own
CreateResponses ==
    {NetworkError}
        \cup {HttpResponse(status, << >>, TRUE, content) :
                 status \in {200, 201}, content \in Replies \cup {NoStr}}
        \cup {HttpResponse(status, << >>, FALSE, NoStr) : status \in {200, 201}}
        \cup {HttpResponse(status, body, FALSE, NoStr) :
                 status \in {400, 401, 403, 404, 429, 500, 503}, body \in ErrorBodies}

(* ------------------------------ state ---------------------------------- *)
VARIABLES
    env,           \* os.environ's GROQ_API_KEY
    session,       \* st.session_state's groq_api_key, per browser session
    credential,    \* per run_stream invocation: the environment's and its
                   \* session's key when it was called
    model_client,  \* lit_review_system.model_client: [made, api_key]
    agents,        \* lit_review_system.researcher and .summarizer are set
    papers_data,   \* lit_review_system.papers_data
    pc,            \* per run_stream invocation: where it stands
    topic,         \* its topic
    papers_json,   \* its papers_json
    request,       \* the messages of the POST it issued
    reply,         \* how its POST ended
    outcome,       \* what create returned or raised
    calls,         \* its calls so far: [fetch, create, post]
    chunks         \* the chunks it has yielded, in order

ovars == <<env, session, credential, model_client, agents, papers_data, pc, topic, papers_json,
           request, reply, outcome, calls, chunks>>

VARIABLES
    n_pc,          \* normalize run: "start", "done" ("off" elsewhere)
    n_messages,    \* the messages handed to create
    n_result       \* formatted_messages

nvars == <<n_pc, n_messages, n_result>>

VARIABLES
    c_pc,          \* create run: "start", "posted", "done" ("off" elsewhere)
    c_client,      \* the adapter: [api_key]
    c_response,    \* how the POST ended
    c_posts,       \* requests issued
    c_outcome      \* what create returned or raised

cvars == <<c_pc, c_client, c_response, c_posts, c_outcome>>

VARIABLES
    f_pc,          \* formatter run: "start", "fetched", "formatted" ("off" elsewhere)
    f_topic,       \* the topic handed to format
    f_search,      \* what the arXiv search returns
    f_shape,       \* the shape the varied summary was built from
    f_papers_json, \* get_papers_sync's return value
    f_review       \* create_formatted_review's return value

fvars == <<f_pc, f_topic, f_search, f_shape, f_papers_json, f_review>>

VARIABLES
    k_pc,          \* construction run: "start", "done" ("off" elsewhere)
    k_via,         \* "direct": GroqChatCompletionClient(api_key=k_arg);
                   \* "lazy": LitReviewSystem._initialize_clients()
    k_arg,         \* the api_key argument, an optional str
    k_env,         \* os.environ's GROQ_API_KEY when the construction starts
    k_session,     \* st.session_state's groq_api_key
    k_environ,     \* os.environ's GROQ_API_KEY now
    k_client,      \* the adapter: [made, api_key]
    k_raised       \* the exception the construction ended in, "none" if none

kvars == <<k_pc, k_via, k_arg, k_env, k_session, k_environ, k_client, k_raised>>

vars == <<ovars, nvars, cvars, fvars, kvars>>

NoPapersJson == [text |-> "None", valid |-> FALSE, value |-> << >>]
NoReply == [kind |-> "none", status |-> 0, body |-> << >>, json_ok |-> FALSE, content |-> NoStr]
NoCredential == [env |-> [set |-> FALSE, val |-> << >>], session |-> [avail |-> FALSE, val |-> << >>]]
NoOutcome == [ok |-> FALSE, failure |-> "none", exc |-> "none", content |-> NoStr]

\* lit_review_system = LitReviewSystem(), no invocation started
OrchInit ==
    /\ \E c \in CredentialSamples :
          /\ env = c[1]
          /\ session = [i \in Sessions |-> IF i = "s1" THEN c[2] ELSE c[3]]
    /\ credential = [i \in Sessions |-> NoCredential]
    /\ model_client = [made |-> FALSE, api_key |-> << >>]
    /\ agents = FALSE
    /\ papers_data = NoPapersJson
    /\ pc = [i \in Sessions |-> "idle"]
    /\ topic = [i \in Sessions |-> ""]
    /\ papers_json = [i \in Sessions |-> NoPapersJson]
    /\ request = [i \in Sessions |-> << >>]
    /\ reply = [i \in Sessions |-> NoReply]
    /\ outcome = [i \in Sessions |-> NoOutcome]
    /\ calls = [i \in Sessions |-> [fetch |-> 0, create |-> 0, post |-> 0]]
    /\ chunks = [i \in Sessions |-> << >>]

OrchOff ==
    /\ env = [set |-> FALSE, val |-> << >>]
    /\ session = [i \in Sessions |-> [avail |-> FALSE, val |-> << >>]]
    /\ credential = [i \in Sessions |-> NoCredential]
    /\ model_client = [made |-> FALSE, api_key |-> << >>]
    /\ agents = FALSE
    /\ papers_data = NoPapersJson
    /\ pc = [i \in Sessions |-> "off"]
    /\ topic = [i \in Sessions |-> ""]
    /\ papers_json = [i \in Sessions |-> NoPapersJson]
    /\ request = [i \in Sessions |-> << >>]
    /\ reply = [i \in Sessions |-> NoReply]
    /\ outcome = [i \in Sessions |-> NoOutcome]
    /\ calls = [i \in Sessions |-> [fetch |-> 0, create |-> 0, post |-> 0]]
    /\ chunks = [i \in Sessions |-> << >>]

NormOff == n_pc = "off" /\ n_messages = NoneInput /\ n_result = [raised |-> FALSE, messages |-> << >>]

CreateOff ==
    /\ c_pc = "off" /\ c_client = [api_key |-> << >>] /\ c_response = NoReply
    /\ c_posts = 0 /\ c_outcome = NoOutcome

FmtOff ==
    /\ f_pc = "off" /\ f_topic = "" /\ f_shape = [lead |-> 0, n |-> 0, ell |-> "none", trail |-> 0]
    /\ f_search = SearchOf(0, 0, 0, f_shape, FALSE)
    /\ f_papers_json = NotJson /\ f_review = << >>

ConstructOff ==
    /\ k_pc = "off" /\ k_via = "direct" /\ k_arg = NoStr
    /\ k_env = [set |-> FALSE, val |-> << >>] /\ k_session = [avail |-> FALSE, val |-> << >>]
    /\ k_environ = k_env
    /\ k_client = [made |-> FALSE, api_key |-> << >>] /\ k_raised = "none"

(* --------------------- the formatter on its own ------------------------ *)
FmtInit ==
    /\ OrchOff /\ NormOff /\ CreateOff /\ ConstructOff
    /\ f_pc = "start"
    /\ f_topic \in Topics
    /\ \E n \in 0..MaxPapers, at \in 1..MaxPapers, k \in 0..MaxAuthors, error \in BOOLEAN :
          /\ (n = 0 => at = 1 /\ k = 0)
          /\ at <= n \/ n = 0
          /\ f_shape \in SummaryShapes
          /\ (n = 0 \/ error) => (f_shape.lead = 0 /\ f_shape.trail = 0 /\ f_shape.ell = "none"
                                   /\ f_shape.n = 0)
          /\ f_search = SearchOf(n, at, k, f_shape, error)
    /\ f_papers_json = NotJson
    /\ f_review = << >>

\* the fetcher runs on the search's results
FmtFetch ==
    /\ f_pc = "start"
    /\ f_papers_json' = get_papers_sync(f_search)
    /\ f_pc' = "fetched"
    /\ UNCHANGED <<f_topic, f_search, f_shape, f_review, ovars, nvars, cvars, kvars>>

\* format is handed a text that is no JSON
FmtBadInput ==
    /\ f_pc = "start"
    /\ f_search.results = << >>
    /\ f_papers_json' = NotJson
    /\ f_pc' = "fetched"
    /\ UNCHANGED <<f_topic, f_search, f_shape, f_review, ovars, nvars, cvars, kvars>>

\* format(topic, papers)
FmtFormat ==
    /\ f_pc = "fetched"
    /\ f_review' = create_formatted_review(f_topic, f_papers_json)
    /\ f_pc' = "formatted"
    /\ UNCHANGED <<f_topic, f_search, f_shape, f_papers_json, ovars, nvars, cvars, kvars>>

FmtNext == FmtFetch \/ FmtBadInput \/ FmtFormat

SpecFormat == FmtInit /\ [][FmtNext]_vars

(* ------------------ the normalisation on its own ----------------------- *)
NormInit ==
    /\ OrchOff /\ CreateOff /\ FmtOff /\ ConstructOff
    /\ n_pc = "start"
    /\ n_messages \in NormalizeInputs
    /\ n_result = [raised |-> FALSE, messages |-> << >>]

\* create formats its messages (groq_client.py:109-122)
NormNormalize ==
    /\ n_pc = "start"
    /\ n_result' = normalize(n_messages)
    /\ n_pc' = "done"
    /\ UNCHANGED <<n_messages, ovars, cvars, fvars, kvars>>

NormNext == NormNormalize

SpecNormalize == NormInit /\ [][NormNext]_vars

(* ------------------------ create on its own ---------------------------- *)
CreateInit ==
    /\ OrchOff /\ NormOff /\ FmtOff /\ ConstructOff
    /\ c_pc = "start"
    /\ c_client \in {[api_key |-> <<"k", "1">>], [api_key |-> << >>]}
    /\ c_response \in CreateResponses
    /\ c_client.api_key = << >> => c_response = NetworkError
    /\ c_posts = 0
    /\ c_outcome = NoOutcome

\* create up to its POST (groq_client.py:100-134): without a key it raises
\* before any request
CreatePost ==
    /\ c_pc = "start"
    /\ IF c_client.api_key = << >>
       THEN /\ c_outcome' = CreateFails("ConfigurationError", "ValueError")
            /\ c_pc' = "done"
            /\ UNCHANGED c_posts
       ELSE /\ c_posts' = c_posts + 1
            /\ c_pc' = "posted"
            /\ UNCHANGED c_outcome
    /\ UNCHANGED <<c_client, c_response, ovars, nvars, fvars, kvars>>

\* the POST ends and create returns or raises (groq_client.py:134-165)
CreateReturn ==
    /\ c_pc = "posted"
    /\ c_outcome' = CreateResult(c_response)
    /\ c_posts' = c_posts + Retries(c_response)
    /\ c_pc' = "done"
    /\ UNCHANGED <<c_client, c_response, ovars, nvars, fvars, kvars>>

CreateNext == CreatePost \/ CreateReturn

SpecCreate == CreateInit /\ [][CreateNext]_vars

(* ------------------ the adapter's construction on its own -------------- *)
ConstructInit ==
    /\ OrchOff /\ NormOff /\ CreateOff /\ FmtOff
    /\ k_pc = "start"
    /\ k_via \in {"direct", "lazy"}
    /\ k_arg \in ArgSamples
    /\ k_via = "lazy" => k_arg = NoStr
    /\ k_env \in EnvSamples
    /\ k_session \in SessionSamples
    /\ k_environ = k_env
    /\ k_client = [made |-> FALSE, api_key |-> << >>]
    /\ k_raised = "none"

\* GroqChatCompletionClient(api_key=k_arg)
ConstructDirect ==
    /\ k_pc = "start" /\ k_via = "direct"
    /\ LET client == GroqClientInit(k_arg, k_environ, k_session)
       IN  /\ k_client' = [made |-> client.ok, api_key |-> client.api_key]
           /\ k_environ' = client.env
           /\ k_raised' = IF client.ok THEN "none" ELSE "ValueError"
    /\ k_pc' = "done"
    /\ UNCHANGED <<k_via, k_arg, k_env, k_session, ovars, nvars, cvars, fvars>>

\* _initialize_clients up to self.model_client = GroqChatCompletionClient(api_key=api_key)
ConstructLazy ==
    /\ k_pc = "start" /\ k_via = "lazy"
    /\ LET found == get_api_key(k_environ, k_session)
       IN  IF ~NonBlank(found.key)
           THEN /\ k_raised' = "ValueError"
                /\ k_environ' = found.env
                /\ UNCHANGED k_client
           ELSE LET client == GroqClientInit(found.key, found.env, k_session)
                IN  /\ k_client' = [made |-> client.ok, api_key |-> client.api_key]
                    /\ k_environ' = client.env
                    /\ k_raised' = IF client.ok THEN "none" ELSE "ValueError"
    /\ k_pc' = "done"
    /\ UNCHANGED <<k_via, k_arg, k_env, k_session, ovars, nvars, cvars, fvars>>

ConstructNext == ConstructDirect \/ ConstructLazy

SpecConstruct == ConstructInit /\ [][ConstructNext]_vars

(* --------------------- Review Orchestrator ----------------------------- *)
Chunk(kind, source, content) == [kind |-> kind, source |-> source, content |-> content]

NoPapersChunk ==
    Chunk("no_papers", "researcher",
          << <<"(x) No papers found for this topic. Please try a different search term.">> >>)
ConfigErrorChunk(message) ==
    Chunk("config_error", "system", << <<"(x) Configuration Error: ", message>> >>)
ErrorChunk(message) == Chunk("error", "system", << <<"(x) Error: ", message>> >>)

\* the emptiness test comparing with a text json.dumps never produces
IsEmptyJsonSpaced(papers_json_i) == papers_json_i.text = "" \/ papers_json_i.text = "[ ]"

\* not papers_json or papers_json == "[]"
IsEmptyJson(papers_json_i) == papers_json_i.text = "" \/ papers_json_i.text = "[]"

\* run_stream falling through after the "no papers" message (its return dropped)
AfterEmptyFetchFallsThrough == "generate"

\* where run_stream stands after the "no papers" message: it has yielded and
\* then returns
AfterEmptyFetch == "yielded"

\* the reply measured without strip()
ReviewChunkUnstripped(topic_i, papers_json_i, result) ==
    IF result.ok /\ result.content.some /\ Len(result.content.val) > MinReviewLen
    THEN Chunk("ai_review", "summarizer", <<result.content.val>>)
    ELSE Chunk("fallback", "summarizer", create_formatted_review(topic_i, papers_json_i))

\* a failure of create shown to the caller instead of the fallback
ReviewChunkSurfacesError(topic_i, papers_json_i, result) ==
    IF ~result.ok THEN ErrorChunk(result.failure)
    ELSE IF result.content.some /\ result.content.val # << >>
            /\ Len(Strip(result.content.val)) > MinReviewLen
    THEN Chunk("ai_review", "summarizer", <<result.content.val>>)
    ELSE Chunk("fallback", "summarizer", create_formatted_review(topic_i, papers_json_i))

\* the inner try/except of run_stream once create has returned or raised: the
\* AI text when it is long enough, the formatter's document otherwise
ReviewChunk(topic_i, papers_json_i, result) ==
    IF /\ result.ok
       /\ result.content.some /\ result.content.val # << >>
       /\ Len(Strip(result.content.val)) > MinReviewLen
    THEN Chunk("ai_review", "summarizer", <<result.content.val>>)
    ELSE Chunk("fallback", "summarizer", create_formatted_review(topic_i, papers_json_i))

\* the single-prompt conversation run_stream builds
SummarizerMessages(topic_i, papers_json_i) ==
    ListInput(<<Message("dict", {"role", "content"}, "", "user",
                        PyStrVal(<<"Create a comprehensive academic literature review for the topic '",
                                   topic_i, "'. Here are the papers to analyze: ",
                                   papers_json_i.text>>),
                        <<"{user: prompt}">>)>>)

Yield(i, chunk) == chunks' = [chunks EXCEPT ![i] = Append(@, chunk)]

\* run_stream going straight to the fetch (its _initialize_clients call moved
\* to the point of use)
AfterStartFetchesFirst == "fetch"

\* where run_stream stands once called: at self._initialize_clients(), the
\* first statement of its try block, ahead of the fetch
AfterStart == "init"

\* generate_lit_review(topic) starts run_stream
Start(i) ==
    /\ pc[i] = "idle"
    /\ topic' = [topic EXCEPT ![i] = TopicOf(i)]
    /\ credential' = [credential EXCEPT ![i] = [env |-> env, session |-> session[i]]]
    /\ pc' = [pc EXCEPT ![i] = AfterStart]
    /\ UNCHANGED <<env, session, model_client, agents, papers_data, papers_json, request,
                   reply, outcome, calls, chunks, nvars, cvars, fvars, kvars>>

\* self._initialize_clients(), and the except clauses it can end in
InitializeClients(i) ==
    /\ pc[i] = "init"
    /\ IF model_client.made
       THEN /\ pc' = [pc EXCEPT ![i] = "fetch"]
            /\ UNCHANGED <<env, model_client, agents, chunks>>
       ELSE LET found == get_api_key(env, session[i])
            IN  /\ env' = found.env
                /\ IF ~NonBlank(found.key)
                   THEN /\ Yield(i, ConfigErrorChunk("GROQ_API_KEY is not available."))
                        /\ pc' = [pc EXCEPT ![i] = "yielded"]
                        /\ UNCHANGED <<model_client, agents>>
                   ELSE LET client == GroqClientInit(found.key, found.env, session[i])
                        IN  /\ model_client' = [made |-> client.ok, api_key |-> client.api_key]
                            /\ \E setup \in SetupOutcomes :
                                  CASE ~client.ok ->
                                         /\ setup = "ValueError"
                                         /\ Yield(i, ConfigErrorChunk("GROQ_API_KEY is required."))
                                         /\ pc' = [pc EXCEPT ![i] = "yielded"]
                                         /\ UNCHANGED agents
                                    [] client.ok /\ setup = "ok" ->
                                         /\ agents' = TRUE
                                         /\ pc' = [pc EXCEPT ![i] = "fetch"]
                                         /\ UNCHANGED chunks
                                    [] client.ok /\ setup = "ValueError" ->
                                         /\ Yield(i, ConfigErrorChunk("agent setup"))
                                         /\ pc' = [pc EXCEPT ![i] = "yielded"]
                                         /\ UNCHANGED agents
                                    [] client.ok /\ setup = "Exception" ->
                                         /\ Yield(i, ErrorChunk("agent setup"))
                                         /\ pc' = [pc EXCEPT ![i] = "yielded"]
                                         /\ UNCHANGED agents
    /\ UNCHANGED <<session, credential, papers_data, topic, papers_json, request, reply, outcome, calls,
                   nvars, cvars, fvars, kvars>>

\* papers_json = get_papers_sync(topic, 5), and the "no papers" return
Fetch(i) ==
    /\ pc[i] = "fetch"
    /\ \E search \in Searches :
          LET fetched == get_papers_sync(search)
          IN  /\ papers_json' = [papers_json EXCEPT ![i] = fetched]
              /\ IF IsEmptyJson(fetched)
                 THEN /\ Yield(i, NoPapersChunk)
                      /\ pc' = [pc EXCEPT ![i] = AfterEmptyFetch]
                      /\ UNCHANGED papers_data
                 ELSE /\ papers_data' = fetched
                      /\ pc' = [pc EXCEPT ![i] = "generate"]
                      /\ UNCHANGED chunks
    /\ calls' = [calls EXCEPT ![i].fetch = @ + 1]
    /\ UNCHANGED <<env, session, credential, model_client, agents, topic, request, reply, outcome,
                   nvars, cvars, fvars, kvars>>

\* await self.model_client.create(formatted_messages), up to the POST: the key
\* check, the message formatting and the request
CallCreate(i) ==
    /\ pc[i] = "generate"
    /\ IF model_client.api_key = << >>
       THEN /\ outcome' = [outcome EXCEPT ![i] = CreateFails("ConfigurationError", "ValueError")]
            /\ Yield(i, ReviewChunk(topic[i], papers_json[i], outcome'[i]))
            /\ calls' = [calls EXCEPT ![i].create = @ + 1]
            /\ pc' = [pc EXCEPT ![i] = "yielded"]
            /\ UNCHANGED request
       ELSE /\ request' = [request EXCEPT ![i] =
                              normalize(SummarizerMessages(topic[i], papers_json[i])).messages]
            /\ calls' = [calls EXCEPT ![i].create = @ + 1, ![i].post = @ + 1]
            /\ pc' = [pc EXCEPT ![i] = "awaiting"]
            /\ UNCHANGED <<outcome, chunks>>
    /\ UNCHANGED <<env, session, credential, model_client, agents, papers_data, topic, papers_json, reply,
                   nvars, cvars, fvars, kvars>>

\* the POST ends; create returns or raises; run_stream yields the AI text or
\* the formatter's document
Response(i) ==
    /\ pc[i] = "awaiting"
    /\ \E response \in Responses :
          /\ reply' = [reply EXCEPT ![i] = response]
          /\ outcome' = [outcome EXCEPT ![i] = CreateResult(response)]
          /\ Yield(i, ReviewChunk(topic[i], papers_json[i], CreateResult(response)))
          /\ calls' = [calls EXCEPT ![i].post = @ + Retries(response)]
    /\ pc' = [pc EXCEPT ![i] = "yielded"]
    /\ UNCHANGED <<env, session, credential, model_client, agents, papers_data, topic, papers_json,
                   request, nvars, cvars, fvars, kvars>>

\* the caller asks for the next chunk: run_stream runs to its end
Resume(i) ==
    /\ pc[i] = "yielded"
    /\ pc' = [pc EXCEPT ![i] = "done"]
    /\ UNCHANGED <<env, session, credential, model_client, agents, papers_data, topic, papers_json,
                   request, reply, outcome, calls, chunks, nvars, cvars, fvars, kvars>>

SessionStep(i) ==
    Start(i) \/ InitializeClients(i) \/ Fetch(i) \/ CallCreate(i) \/ Response(i) \/ Resume(i)

Init == OrchInit /\ NormOff /\ CreateOff /\ FmtOff /\ ConstructOff

Next == \E i \in Sessions : SessionStep(i)

Spec == Init /\ [][Next]_vars

(* ------------------- reading a document back --------------------------- *)
StartsWith(line, token) == Len(line) > 0 /\ line[1] = token
IsSectionHeader(line) == StartsWith(line, "### ")
IsAuthorLine(line) == StartsWith(line, "**Authors:** ")
IsSummaryLine(line) == StartsWith(line, "**Summary:** ")
SectionHeaders(doc) == SelectSeq(doc, IsSectionHeader)
AuthorLines(doc) == SelectSeq(doc, IsAuthorLine)
SummaryLines(doc) == SelectSeq(doc, IsSummaryLine)
Tokens(line) == {line[i] : i \in 1..Len(line)}

\* body is the names of a, in order, with ", " between each two
CommaJoined(body, a) ==
    /\ Len(body) = (IF Len(a) = 0 THEN 0 ELSE 2 * Len(a) - 1)
    /\ \A j \in 1..Len(a) : body[2 * j - 1] = a[j]
    /\ \A j \in 1..(Len(a) - 1) : body[2 * j] = ", "

\* the papers format was handed, when it was handed a JSON list
FormattedPapers == f_papers_json.value
Formatted == f_pc = "formatted" /\ f_papers_json.valid

(* C8: for every paper the author line lists all authors comma-joined with *)
(* no "et al." when there are at most 3, and exactly the first 3 followed  *)
(* by "et al." when there are 4 or more.                                   *)
C8_AuthorLine ==
    Formatted =>
        /\ Len(AuthorLines(f_review)) = Len(FormattedPapers)
        /\ \A i \in 1..Len(FormattedPapers) :
              LET a    == f_search.results[i].authors
                  line == AuthorLines(f_review)[i]
                  body == SubSeq(line, 2, Len(line) - 1)
              IN  /\ line[Len(line)] = "  "
                  /\ IF Len(a) <= 3
                     THEN CommaJoined(body, a) /\ " et al." \notin Tokens(body)
                     ELSE body = <<a[1], ", ", a[2], ", ", a[3], " et al.">>

\* paper 1 has the authors A, B, C, D and its line reads "A, B, C et al."
C8_Witness ==
    /\ Formatted
    /\ Len(FormattedPapers) >= 1
    /\ f_search.results[1].authors = <<"A", "B", "C", "D">>
    /\ AuthorLines(f_review)[1] = <<"**Authors:** ", "A", ", ", "B", ", ", "C", " et al.", "  ">>

\* what cleanup leaves of a summary of the given shape, when the fetcher's
\* own cut (400 characters) does not reach into it
ExpectedClean(shape) ==
    IF shape.ell = "newline" /\ shape.n >= 2
    THEN <<"x", " ">> \o Rep("x", shape.n - 2)
    ELSE Rep("x", shape.n)

(* C9: for every paper the summary is the cleaned-up summary unchanged,    *)
(* with no ellipsis appended, when its length after cleanup is at most 300 *)
(* and exactly its first 300 characters followed by an ellipsis when it is *)
(* longer (300 is not cut, 301 is).                                        *)
C9_Summary ==
    Formatted =>
        /\ Len(SummaryLines(f_review)) = Len(FormattedPapers)
        /\ \A i \in 1..Len(FormattedPapers) :
              LET line  == SummaryLines(f_review)[i]
                  body  == SubSeq(line, 2, Len(line))
                  clean == Strip(RemoveEllipsis(FormattedPapers[i].summary))
              IN  /\ IF Len(clean) <= 300
                     THEN body = clean
                     ELSE body = SubSeq(clean, 1, 300) \o <<".", ".", ".">>
                  /\ (/\ f_search.results[i].summary = SummaryOf(f_shape)
                      /\ f_shape.n + 3 <= FetchSummaryLimit)
                     => body = IF f_shape.n <= 300 THEN ExpectedClean(f_shape)
                               ELSE SubSeq(ExpectedClean(f_shape), 1, 300) \o <<".", ".", ".">>

\* a summary of 301 letters after cleanup comes out as 300 letters and "..."
C9_Witness ==
    /\ Formatted
    /\ Len(FormattedPapers) >= 1
    /\ f_shape.n = 301 /\ f_shape.ell = "end" /\ f_shape.lead = 1
    /\ f_search.results[1].summary = SummaryOf(f_shape)
    /\ SummaryLines(f_review)[1] = <<"**Summary:** ">> \o Rep("x", 300) \o <<".", ".", ".">>

(* C10: format(topic, []) is a non-empty document that states that no      *)
(* papers were found and has no "###" section header; for a non-empty list *)
(* the document has exactly one "###" section per paper, numbered 1..n in  *)
(* input order.                                                            *)
C10_Sections ==
    Formatted =>
        LET papers  == FormattedPapers
            headers == SectionHeaders(f_review)
        IN  /\ papers = << >> =>
                  /\ f_review # << >>
                  /\ \E l \in 1..Len(f_review) :
                        f_review[l] = <<"(x) No papers found for this topic.">>
                  /\ headers = << >>
            /\ papers # << >> =>
                  /\ Len(headers) = Len(papers)
                  /\ \A i \in 1..Len(papers) :
                        /\ headers[i][2] = ToString(i)
                        /\ SubSeq(headers[i], 4, 3 + Len(papers[i].title)) = papers[i].title
                        /\ headers[i][Len(headers[i]) - 1] = papers[i].pdf_url

\* both cases of C10 are reached: an empty list, and a full list of papers
C10_Witness ==
    /\ Formatted
    /\ Len(FormattedPapers) = MaxPapers
    /\ Len(SectionHeaders(f_review)) = MaxPapers
    /\ SectionHeaders(f_review)[MaxPapers][2] = ToString(MaxPapers)

C10_WitnessEmpty ==
    /\ Formatted
    /\ FormattedPapers = << >>
    /\ f_review = NoPapersDoc(f_topic)

(* --------------------------- orchestrator claims ----------------------- *)
Ended(i) == pc[i] \in {"yielded", "done"}
\* the order of the places of run_stream
PcRank(place) ==
    CASE place = "idle" -> 0 [] place = "init" -> 1 [] place = "fetch" -> 2
      [] place = "generate" -> 3 [] place = "awaiting" -> 4 [] place = "yielded" -> 5
      [] place = "done" -> 6
FetchedPapers(i) == papers_json[i].value

(* C1: every invocation of the orchestrator ends after emitting exactly    *)
(* one output chunk, whichever terminal path it takes: never zero chunks,  *)
(* never two.  It has yielded exactly one chunk from the                   *)
(* moment it yields to its end; every step moves it forward.               *)
C1_ExactlyOneChunk ==
    /\ [](\A i \in Sessions :
              /\ Len(chunks[i]) <= 1
              /\ Ended(i) <=> Len(chunks[i]) = 1)
    /\ [][\A i \in Sessions :
              /\ pc'[i] # pc[i] => PcRank(pc'[i]) > PcRank(pc[i])
              /\ chunks'[i] # chunks[i] =>
                     (Ended(i)' /\ Len(chunks'[i]) = Len(chunks[i]) + 1)]_vars

\* two invocations have ended, one with the AI review and one with an error
C1_Witness ==
    \E i, j \in Sessions :
        /\ pc[i] = "done" /\ pc[j] = "done"
        /\ Len(chunks[i]) = 1 /\ chunks[i][1].kind = "ai_review"
        /\ Len(chunks[j]) = 1 /\ chunks[j][1].kind = "error"

(* C2: when get_papers_sync returns the empty list (no papers, or a failed *)
(* search) the orchestrator emits exactly one "no papers found" message    *)
(* and never calls create in that invocation.                              *)
C2_EmptyFetchNoCreate ==
    \A i \in Sessions :
        (calls[i].fetch > 0 /\ papers_json[i].text = "[]") =>
            /\ Ended(i)
            /\ Len(chunks[i]) = 1
            /\ chunks[i][1].source = "researcher"
            /\ chunks[i][1].content =
                   << <<"(x) No papers found for this topic. Please try a different search term.">> >>
            /\ calls[i].create = 0 /\ calls[i].post = 0
            /\ request[i] = << >>

\* an invocation has ended on the "no papers" message while the other one
\* did call create
C2_Witness ==
    \E i, j \in Sessions :
        /\ pc[i] = "done" /\ papers_json[i].text = "[]" /\ calls[i].fetch = 1
        /\ chunks[i] = <<NoPapersChunk>> /\ calls[i].create = 0
        /\ calls[j].create = 1

\* the chunk is the formatter's document for the papers fetched: one
\* numbered section per paper
IsFormatterOutput(chunk, i) ==
    /\ chunk.source = "summarizer"
    /\ chunk.content[1] = <<"# Literature Review: ", topic[i]>>
    /\ Len(SectionHeaders(chunk.content)) = Len(FetchedPapers(i))
    /\ \A k \in 1..Len(FetchedPapers(i)) :
          /\ SectionHeaders(chunk.content)[k][2] = ToString(k)
          /\ SubSeq(SectionHeaders(chunk.content)[k], 4, 3 + Len(FetchedPapers(i)[k].title))
                = FetchedPapers(i)[k].title

CreateSucceeded(i) == Ended(i) /\ calls[i].post = 1 /\ outcome[i].ok

\* C3 as stated: with papers fetched and a successful create, the AI text
\* is the review exactly when its length is above 100 characters, and the
\* formatter's output, one numbered section per paper, otherwise
C3_ReviewByLength ==
    \A i \in Sessions :
        CreateSucceeded(i) =>
            LET text == outcome[i].content
            IN  /\ Len(chunks[i]) = 1
                /\ IF text.some /\ Len(text.val) > 100
                   THEN chunks[i][1].content = <<text.val>> /\ chunks[i][1].source = "summarizer"
                   ELSE IsFormatterOutput(chunks[i][1], i)

(* C3, amended: with at least one paper fetched and a successful create,   *)
(* the orchestrator emits the AI text as the review exactly when the       *)
(* output, stripped of leading and trailing whitespace, is longer than 100 *)
(* characters; otherwise (50 characters, empty, null, or 100 characters    *)
(* plus padding) it emits the formatter's output with one numbered section *)
(* per fetched paper.                                                      *)
C3_ReviewByStrippedLength ==
    \A i \in Sessions :
        CreateSucceeded(i) =>
            LET text == outcome[i].content
                unpadded == IF text.some
                            THEN Cardinality({k \in 1..Len(text.val) : text.val[k] = "r"})
                            ELSE 0
            IN  /\ Len(chunks[i]) = 1
                /\ Len(FetchedPapers(i)) >= 1
                /\ IF unpadded > 100
                   THEN chunks[i][1].content = <<text.val>> /\ chunks[i][1].source = "summarizer"
                   ELSE IsFormatterOutput(chunks[i][1], i)

\* a reply of 100 letters after one blank (101 characters) is answered with
\* the formatter's document of MaxPapers sections
C3_Witness ==
    \E i \in Sessions :
        /\ CreateSucceeded(i)
        /\ outcome[i].content = ReplyOf(1, 100)
        /\ Len(FetchedPapers(i)) = MaxPapers
        /\ chunks[i][1].kind = "fallback"
        /\ Len(SectionHeaders(chunks[i][1].content)) = MaxPapers

(* C4: for every failure of create (AuthError, RateLimited,                *)
(* ModelUnavailable, TransportError, a malformed body included) the        *)
(* orchestrator emits the formatter's output as its single chunk; nothing  *)
(* propagates out of run_stream and no error message reaches the caller.   *)
C4_CreateFailureFallsBack ==
    \A i \in Sessions :
        (calls[i].create = 1 /\ ~outcome[i].ok /\ pc[i] # "awaiting") =>
            /\ Ended(i)
            /\ Len(chunks[i]) = 1
            /\ chunks[i][1].source # "system"
            /\ IsFormatterOutput(chunks[i][1], i)
            /\ chunks[i][1].content = create_formatted_review(topic[i], papers_json[i])

\* create failed on a 401 and on a malformed body; both runs ended with the
\* formatter's document
C4_Witness ==
    \E i, j \in Sessions :
        /\ pc[i] = "done" /\ outcome[i].failure = "AuthError"
        /\ pc[j] = "done" /\ outcome[j].exc = "KeyError"
        /\ chunks[i][1].kind = "fallback" /\ chunks[j][1].kind = "fallback"

(* ------------------------------ create claims -------------------------- *)
Mentions(body, phrases) == \E k \in 1..Len(body) : body[k] \in phrases
SaysModel(body) == Mentions(body, {"model", "Model", "MODEL"})
SaysDecommissioned(body) == Mentions(body, {"decommissioned", "Decommissioned", "DECOMMISSIONED"})
SaysRateLimit(body) == Mentions(body, {"rate limit", "Rate limit", "Rate Limit"})
CreateFailed ==
    /\ c_pc = "done" /\ c_posts = 1
    /\ c_response.kind = "network_error" \/ c_response.status \notin 200..299

\* C5 as stated: 401 gives AuthError, 429 RateLimited, a rate-limit-shaped
\* 400 body RateLimited, a 400 body containing "decommissioned"
\* ModelUnavailable, anything else TransportError
C5_FailureMappingAsStated ==
    CreateFailed =>
        c_outcome.failure =
            IF c_response.kind = "network_error" THEN "TransportError"
            ELSE IF c_response.status = 401 THEN "AuthError"
            ELSE IF c_response.status = 429 THEN "RateLimited"
            ELSE IF c_response.status = 400 /\ SaysDecommissioned(c_response.body)
            THEN "ModelUnavailable"
            ELSE IF c_response.status = 400 /\ SaysRateLimit(c_response.body)
            THEN "RateLimited"
            ELSE "TransportError"

(* C5, amended: create maps a non-2xx response to a failure by status and  *)
(* body: 401 gives AuthError; 429 gives RateLimited; a 400 body containing *)
(* both "model" and "decommissioned" (in any case) gives ModelUnavailable; *)
(* any other 400 body containing "rate limit" gives RateLimited; every     *)
(* other non-2xx status, and a network-level failure, gives TransportError.*)
C5_FailureMapping ==
    CreateFailed =>
        /\ ~c_outcome.ok
        /\ c_outcome.failure =
            IF c_response.kind = "network_error" THEN "TransportError"
            ELSE IF c_response.status = 401 THEN "AuthError"
            ELSE IF c_response.status = 429 THEN "RateLimited"
            ELSE IF /\ c_response.status = 400
                    /\ SaysModel(c_response.body) /\ SaysDecommissioned(c_response.body)
            THEN "ModelUnavailable"
            ELSE IF c_response.status = 400 /\ SaysRateLimit(c_response.body)
            THEN "RateLimited"
            ELSE "TransportError"

\* a 400 whose body names a decommissioned model and a rate limit
C5_Witness ==
    /\ CreateFailed
    /\ c_response.status = 400
    /\ SaysRateLimit(c_response.body) /\ SaysModel(c_response.body)
    /\ SaysDecommissioned(c_response.body)
    /\ c_outcome.failure = "ModelUnavailable"

(* ------------------------- normalisation claims ------------------------ *)
(* C6: normalize never fails and always returns a non-empty message list,  *)
(* for any input: an empty list, a single string (the empty string         *)
(* included), a list of strings, of mappings, of objects.                  *)
C6_NormalizeNonEmpty ==
    n_pc = "done" => ~n_result.raised /\ n_result.messages # << >>

HasRole(m) == "role" \in m.has

(* C7: normalize returns one {role, content} entry per input message, in   *)
(* input order; the role is the one the message specifies, for mappings    *)
(* and for objects with a role and a content alike, and is "user" only     *)
(* when the message specifies none; the content is always a string.        *)
C7_RolesKept ==
    (n_pc = "done" /\ n_messages.t = "list") =>
        /\ Len(n_result.messages) = Len(n_messages.items)
        /\ \A k \in 1..Len(n_messages.items) :
              LET m   == n_messages.items[k]
                  out == n_result.messages[k]
              IN  /\ HasRole(m) => out.role = m.role
                  /\ out.role = "user" => (~HasRole(m) \/ m.role = "user")
                  /\ out.ctype = "str"

(* ------------------------- construction claims ------------------------- *)
\* the text is a non-empty, non-whitespace value
Holds(text) == \E k \in 1..Len(text) : text[k] \notin {" ", "\n", "\t"}
ArgHolds == k_arg.some /\ Holds(k_arg.val)
EnvHolds == k_env.set /\ Holds(k_env.val)
SessionHolds == k_session.avail /\ Holds(k_session.val)
\* the key with its padding removed, for the sampled keys
Unpadded(text) == SelectSeq(text, LAMBDA c : c \notin {" ", "\n", "\t"})

(* C11: constructing the Chat Adapter takes the credential from the first  *)
(* of (explicit argument, process environment, session store) that holds a *)
(* non-empty, non-whitespace value, and from that source only; when none   *)
(* holds one the construction fails with a configuration error and no      *)
(* adapter is created.                                                     *)
C11_CredentialPriority ==
    k_pc = "done" =>
        /\ ArgHolds => (k_client.made /\ k_client.api_key = Unpadded(k_arg.val))
        /\ (~ArgHolds /\ EnvHolds) =>
               (k_client.made /\ k_client.api_key = Unpadded(k_env.val))
        /\ (~ArgHolds /\ ~EnvHolds /\ SessionHolds) =>
               (k_client.made /\ k_client.api_key = Unpadded(k_session.val))
        /\ (~ArgHolds /\ ~EnvHolds /\ ~SessionHolds) =>
               (~k_client.made /\ k_client.api_key = << >> /\ k_raised = "ValueError")
        /\ k_client.made <=> k_raised = "none"

\* a blank argument and a key in both other sources: the environment's is taken
C11_Witness ==
    /\ k_pc = "done" /\ k_via = "direct"
    /\ k_arg = SomeStr(<<" ">>)
    /\ k_env = [set |-> TRUE, val |-> <<" ", "k", "1">>]
    /\ k_session = [avail |-> TRUE, val |-> <<"k", "2">>]
    /\ k_client = [made |-> TRUE, api_key |-> <<"k", "1">>]

\* no source holds a value: the construction raised and there is no adapter
C11_WitnessNone ==
    /\ k_pc = "done"
    /\ ~ArgHolds /\ ~EnvHolds /\ ~SessionHolds
    /\ k_session.avail /\ k_env.set
    /\ ~k_client.made /\ k_raised = "ValueError"

(* ----------------------- credential and ordering claims ---------------- *)
EnvHasKey == env.set /\ Holds(env.val)
StoreHasKey(i) == session[i].avail /\ Holds(session[i].val)
NotAvailableChunk == ConfigErrorChunk("GROQ_API_KEY is not available.")
Called(i) == pc[i] \notin {"idle", "init"}

\* C12 as stated: with no credential available the orchestrator performs
\* the fetch first, discovers the missing credential afterwards, emits the
\* single configuration-error message and ends
C12_FetchThenConfigError ==
    \A i \in Sessions :
        (Called(i) /\ ~model_client.made /\ ~EnvHasKey /\ ~StoreHasKey(i)) =>
            /\ Ended(i)
            /\ chunks[i] = <<NotAvailableChunk>>
            /\ calls[i].fetch = 1

(* C12, amended: when no adapter has been constructed yet and no           *)
(* credential is available, the orchestrator discovers the missing         *)
(* credential at the start of the invocation, before the Fetch call: it    *)
(* performs no Fetch call and no create call, emits the single             *)
(* configuration-error message and ends.                                   *)
C12_ConfigErrorBeforeFetch ==
    \A i \in Sessions :
        (Called(i) /\ ~model_client.made /\ ~EnvHasKey /\ ~StoreHasKey(i)) =>
            /\ Ended(i)
            /\ chunks[i] = <<NotAvailableChunk>>
            /\ chunks[i][1].source = "system"
            /\ calls[i] = [fetch |-> 0, create |-> 0, post |-> 0]
            /\ papers_json[i] = NoPapersJson

\* an invocation without a credential has ended on the configuration error
\* and has fetched nothing
C12_Witness ==
    \E i \in Sessions :
        /\ pc[i] = "done"
        /\ ~model_client.made /\ ~EnvHasKey /\ ~StoreHasKey(i)
        /\ chunks[i] = <<NotAvailableChunk>>
        /\ calls[i].fetch = 0

\* the invocation ended before fetching: on a configuration error or on a
\* failure of the agents' setup
EndedOnSetupError(i) ==
    Len(chunks[i]) = 1 /\ chunks[i][1].kind \in {"config_error", "error"}

\* C13 as stated: each invocation performs exactly one Fetch call followed
\* by at most one create call, in that order, and each create call issues
\* exactly one network request whatever its outcome
C13_OneFetchThenCreate ==
    \A i \in Sessions :
        /\ calls[i].fetch <= 1 /\ calls[i].create <= 1
        /\ Ended(i) => calls[i].fetch = 1
        /\ calls[i].create = 1 => calls[i].fetch = 1
        /\ calls[i].post = calls[i].create

(* C13, amended: each orchestrator invocation performs at most one Fetch   *)
(* call, exactly one unless it ends on a configuration or setup error      *)
(* before fetching, followed by at most one create call, strictly in that  *)
(* order; each create call issues exactly one network request with no      *)
(* internal retry, whatever the outcome of the request.                    *)
C13_AtMostOneFetchThenCreate ==
    \A i \in Sessions :
        /\ calls[i].fetch <= 1 /\ calls[i].create <= 1
        /\ Ended(i) => (calls[i].fetch = 1 <=> ~EndedOnSetupError(i))
        /\ pc[i] \in {"generate", "awaiting"} => calls[i].fetch = 1
        /\ calls[i].create = 1 => (calls[i].fetch = 1 /\ FetchedPapers(i) # << >>)
        /\ calls[i].post = calls[i].create
        /\ (Ended(i) /\ calls[i].create = 1) => (calls[i].post = 1 /\ reply[i] # NoReply)

\* one invocation fetched, called create once and was answered 429 after
\* its single request; the other one ended on a setup error without fetching
C13_Witness ==
    \E i, j \in Sessions :
        /\ pc[i] = "done" /\ calls[i] = [fetch |-> 1, create |-> 1, post |-> 1]
        /\ reply[i].kind = "http" /\ reply[i].status = 429 /\ ~outcome[i].ok
        /\ pc[j] = "done" /\ EndedOnSetupError(j) /\ calls[j].fetch = 0

(* ------------------------- independence claim -------------------------- *)
\* the credential an invocation found available when it was called
OwnEnvHasKey(i) == credential[i].env.set /\ Holds(credential[i].env.val)
OwnStoreHasKey(i) == credential[i].session.avail /\ Holds(credential[i].session.val)
OwnKey(i) ==
    IF OwnEnvHasKey(i) THEN Unpadded(credential[i].env.val)
    ELSE IF OwnStoreHasKey(i) THEN Unpadded(credential[i].session.val)
    ELSE << >>

\* the chunk an invocation yields after fetching, from its own topic, its
\* own fetch and its own chat response
ChunkOfOwnInputs(i) ==
    IF papers_json[i].text = "[]" THEN NoPapersChunk
    ELSE ReviewChunk(topic[i], papers_json[i], CreateResult(reply[i]))

(* C14: no shared mutable resource exists across invocations: for any      *)
(* sequence or interleaving of run_stream invocations, each invocation's   *)
(* outcome depends only on its own topic, the credential available when it *)
(* was called and its own fetch and chat responses (without a credential   *)
(* it ends on the configuration error; with one, its request goes out      *)
(* under that credential and its chunk follows from its own responses),    *)
(* never on an adapter or paper data left or concurrently written by       *)
(* another invocation, and the credential is only read, never written.     *)
C14_IndependentInvocations ==
    \A i \in Sessions :
        /\ Called(i) => env = credential[i].env
        /\ calls[i].post = 1 => model_client.api_key = OwnKey(i)
        /\ Ended(i) =>
               IF ~OwnEnvHasKey(i) /\ ~OwnStoreHasKey(i)
               THEN chunks[i] = <<NotAvailableChunk>>
               ELSE EndedOnSetupError(i) \/ chunks[i] = <<ChunkOfOwnInputs(i)>>
        /\ (pc[i] = "idle" /\ \A j \in Sessions : pc[j] \in {"idle", "done"}) =>
               (~model_client.made /\ papers_data = NoPapersJson)

\* what C14 rules out, reached: an invocation called without any credential
\* has sent its request under the key another session's invocation left in
\* the shared adapter, and ended with a review
SharedAdapterLeak ==
    \E i, j \in Sessions :
        /\ i # j
        /\ pc[i] = "done"
        /\ ~OwnEnvHasKey(i) /\ ~OwnStoreHasKey(i)
        /\ calls[i].post = 1
        /\ model_client.api_key = Unpadded(session[j].val) /\ model_client.api_key # << >>
        /\ chunks[i][1].kind = "ai_review"

====
